---- MODULE Spec2Model ----
(***************************************************************************)
(* Plugin discovery of modmail: modmail/utils/plugins.py, walk_plugins().  *)
(*                                                                         *)
(* Strings are sequences of one-character strings, so that rstrip, replace *)
(* and split are computed character by character as Python computes them.  *)
(* A plugin tree is a function from relative paths to the module each file *)
(* holds; walk_plugins is a generator over the order in which Path.glob    *)
(* enumerates the tree, one action per branch of its loop body.            *)
(***************************************************************************)
EXTENDS Integers, Sequences, FiniteSets

VARIABLES
    botMode,     \* BOT_MODE, fixed at process start
    tree,        \* relative path -> module, the files under BASE_PATH
    globOrder,   \* the order BASE_PATH.glob("**/*.py") yields them in this call
    idx,         \* position of the loop in globOrder
    out,         \* what this call of walk_plugins has yielded so far
    loaded,      \* paths handed to exec_module in this call
    status,      \* "running", "exhausted" (StopIteration) or "raised"
    calls,       \* number of calls of walk_plugins started
    prev,        \* outcome of the previous call: [out, status]
    pathA,       \* identity resolution on its own: two relative paths ...
    pathB,
    nameA,       \* ... and the qualified names derived from them
    nameB,
    resolved,    \* whether nameA, nameB have been computed
    relayChannel, \* DmRelay.relay_channel has been fetched
    threads,     \* guild.threads: the threads of the relay channel, oldest first
    handlers,    \* one DmRelay.on_message coroutine per message: where it is
    closes       \* one DmRelay.close coroutine per close command: where it is

vars == <<botMode, tree, globOrder, idx, out, loaded, status, calls, prev,
          pathA, pathB, nameA, nameB, resolved, relayChannel, threads, handlers,
          closes>>

walkVars == <<botMode, tree, globOrder, idx, out, loaded, status, calls, prev>>
nameVars == <<pathA, pathB, nameA, nameB, resolved>>
relayVars == <<relayChannel, threads, handlers, closes>>

----------------------------------------------------------------------------
(* Bounds *)

MaxFiles == 2        \* files in a plugin tree
MaxSolo == 1         \* files in a tree whose candidates are looked at one by one
MaxCalls == 2        \* successive calls of walk_plugins over the same tree
MaxPathLen == 3      \* characters of a relative path before its ".py" suffix
MaxMessages == 3     \* messages dispatched to DmRelay.on_message
MaxCloses == 2       \* close commands invoked

----------------------------------------------------------------------------
(* Strings *)

Suffix == <<".", "p", "y">>

\* str.rstrip(chars): drop trailing characters while they belong to chars
RECURSIVE rstrip(_, _)
rstrip(s, chars) ==
    IF s # <<>> /\ s[Len(s)] \in chars
    THEN rstrip(SubSeq(s, 1, Len(s) - 1), chars)
    ELSE s

\* str.replace(old, new) for one-character old and new
replace(s, old, new) == [i \in 1..Len(s) |-> IF s[i] = old THEN new ELSE s[i]]

\* s.split(sep)[-1]: what follows the last occurrence of sep
RECURSIVE LastSegment(_, _)
LastSegment(s, sep) ==
    IF s = <<>> \/ s[Len(s)] = sep
    THEN <<>>
    ELSE Append(LastSegment(SubSeq(s, 1, Len(s) - 1), sep), s[Len(s)])

\* s.split(sep): the segments of s
RECURSIVE Split(_, _)
Split(s, sep) ==
    IF \A i \in 1..Len(s) : s[i] # sep
    THEN <<s>>
    ELSE LET k == CHOOSE i \in 1..Len(s) :
                     s[i] = sep /\ \A j \in 1..(i - 1) : s[j] # sep
         IN  <<SubSeq(s, 1, k - 1)>> \o Split(SubSeq(s, k + 1, Len(s)), sep)

startswith(s, c) == s # <<>> /\ s[1] = c

\* modmail.utils.extensions.unqualify: the last dotted component of a name
unqualify(name) == LastSegment(name, ".")

----------------------------------------------------------------------------
(* Identity: plugins.py lines 34-39 *)

PluginsPrefix ==
    <<"m", "o", "d", "m", "a", "i", "l", ".", "p", "l", "u", "g", "i", "n", "s", ".">>

StripChars == {".", "p", "y"}

\* relative_path.__str__().rstrip(".py").replace("/", ".")
StrippedName(rel) == replace(rstrip(rel, StripChars), "/", ".")

QualName(rel) == PluginsPrefix \o StrippedName(rel)

\* unqualify(name.split(".")[-1]).startswith("_")
IsSkipped(name) == startswith(unqualify(LastSegment(name, ".")), "_")

----------------------------------------------------------------------------
(* Mode flags and extension metadata: modmail.utils.cogs *)

PRODUCTION == 1
DEVELOPMENT == 2
PLUGIN_DEVELOPMENT == 4

ModeBits == <<PRODUCTION, DEVELOPMENT, PLUGIN_DEVELOPMENT>>
ModeNames == <<"PRODUCTION", "DEVELOPMENT", "PLUGIN_DEVELOPMENT">>

Masks == 0..(PRODUCTION + DEVELOPMENT + PLUGIN_DEVELOPMENT)

HasBit(mask, bit) == (mask \div bit) % 2 = 1

RECURSIVE SumBits(_, _, _)
SumBits(m, a, i) ==
    IF i > Len(ModeBits) THEN 0
    ELSE (IF HasBit(m, ModeBits[i]) /\ HasBit(a, ModeBits[i]) THEN ModeBits[i] ELSE 0)
         + SumBits(m, a, i + 1)

\* m & a on mode masks
BitAnd(m, a) == SumBits(m, a, 1)

\* the names of the flags set in a mask, in flag order
RECURSIVE NamesFrom(_, _)
NamesFrom(mask, i) ==
    IF i > Len(ModeBits) THEN <<>>
    ELSE (IF HasBit(mask, ModeBits[i]) THEN <<ModeNames[i]>> ELSE <<>>)
         \o NamesFrom(mask, i + 1)

to_strings(mask) == NamesFrom(mask, 1)

\* ExtMetadata.load_if_mode, the class attribute: the default mask
DefaultLoadIfMode == PRODUCTION

\* The second element of a yielded pair is a list of names (line 70) or a
\* mode value (line 78).
ListValue(names) == [type |-> "list", items |-> names, int |-> 0]
IntValue(n) == [type |-> "int", items |-> <<>>, int |-> n]

\* Python truth value, as `if should_load:` in the caller reads it
Truthy(v) == IF v.type = "list" THEN v.items # <<>> ELSE v.int # 0

----------------------------------------------------------------------------
(* What a file under the plugin root holds *)

\* load: how spec_from_file_location / module_from_spec / exec_module end:
\*   "ok", raising an Exception subclass, or raising a BaseException that is
\*   no Exception (SystemExit, KeyboardInterrupt).
\* setup: the module's `setup` attribute: absent, a function of one
\*   parameter, a function of no parameter, or a callable that is no function.
\* ext_metadata: EXT_METADATA absent (or None), an ExtMetadata with a mask, or
\*   a value without a usable load_if_mode.
LoadOutcomes == {"ok", "Exception", "BaseException"}
SetupKinds == {"absent", "function1", "function0", "callable"}
MetadataKinds == {"absent", "declared", "malformed"}

\* Attributes the scan never gets to read are kept at one value.
Modules ==
    {m \in [load : LoadOutcomes, setup : SetupKinds,
            ext_metadata : MetadataKinds, load_if_mode : Masks] :
        /\ m.load # "ok" => m.setup = "absent"
        /\ m.setup \in {"absent", "callable"} => m.ext_metadata = "absent"
        /\ m.ext_metadata # "declared" => m.load_if_mode = 0}

\* inspect.isfunction(getattr(imported, "setup", None))
HasSetupFunction(m) == m.setup \in {"function1", "function0"}

\* a faulty variant of LoadCog: | in place of &
LoadCogUnion(load_if_mode, bot_mode) ==
    ListValue(to_strings(load_if_mode + bot_mode - BitAnd(load_if_mode, bot_mode)))

\* (ext_metadata.load_if_mode & BOT_MODE).to_strings()
LoadCog(load_if_mode, bot_mode) == ListValue(to_strings(BitAnd(load_if_mode, bot_mode)))

\* ExtMetadata.load_if_mode, yielded when EXT_METADATA is missing
DefaultLoadCog == IntValue(DefaultLoadIfMode)

----------------------------------------------------------------------------
(* Plugin trees *)

\* File names of the trees walked: an ordinary name, a name made of
\* characters rstrip(".py") removes, and a private name; files lie at the
\* root or in a private directory.
FileStems == {<<"a">>, <<"p">>, <<"_">>}
DirNames == {<<"_">>}

\* relative paths matched by glob("**/*.py"), at the root or one level down
TreePaths ==
    {n \o Suffix : n \in FileStems}
    \cup {d \o <<"/">> \o n \o Suffix : d \in DirNames, n \in FileStems}

FileSets(n) == {S \in SUBSET TreePaths : Cardinality(S) <= n}

\* the trees of at most n files
Trees(n) == UNION {[S -> Modules] : S \in FileSets(n)}

\* every order in which a directory scan may hand out the files of S
Orders(S) ==
    {o \in [1..Cardinality(S) -> S] : \A i, j \in 1..Cardinality(S) : o[i] = o[j] => i = j}

\* BOT_MODE: one flag or a combination of flags
BotModes == Masks \ {0}

NoCall == [out |-> <<>>, status |-> "none"]

\* a yielded pair (imported.__name__, load_cog); path records the file it is for
Yielded(rel, load_cog) == [path |-> rel, name |-> QualName(rel), load_cog |-> load_cog]

InitWalk(n) ==
    /\ botMode \in BotModes
    /\ tree \in Trees(n)
    /\ globOrder \in Orders(DOMAIN tree)
    /\ idx = 1
    /\ out = <<>>
    /\ loaded = {}
    /\ status = "running"
    /\ calls = 1
    /\ prev = NoCall

IdleNames ==
    /\ pathA = <<>>
    /\ pathB = <<>>
    /\ nameA = <<>>
    /\ nameB = <<>>
    /\ resolved = FALSE

\* DmRelay.__init__: no relay channel yet; no message has arrived
IdleRelay ==
    /\ relayChannel = FALSE
    /\ threads = <<>>
    /\ handlers = <<>>
    /\ closes = <<>>

Init == InitWalk(MaxFiles) /\ IdleNames /\ IdleRelay

----------------------------------------------------------------------------
(* walk_plugins: one action per way through the loop body, lines 32-78 *)

AtCandidate == status = "running" /\ idx <= Len(globOrder)

Advance ==
    /\ idx' = idx + 1
    /\ UNCHANGED <<botMode, tree, globOrder, status, calls, prev, nameVars, relayVars>>

\* lines 39-41: the name is skipped before anything is loaded
SkipUnderscore ==
    /\ AtCandidate
    /\ IsSkipped(QualName(globOrder[idx]))
    /\ Advance
    /\ UNCHANGED <<out, loaded>>

\* lines 46-58: the import raises an Exception, which is logged
ImportFails ==
    /\ AtCandidate
    /\ ~IsSkipped(QualName(globOrder[idx]))
    /\ tree[globOrder[idx]].load = "Exception"
    /\ loaded' = loaded \cup {globOrder[idx]}
    /\ Advance
    /\ UNCHANGED out

\* lines 46-53: `except Exception` lets a BaseException through
ImportEscapes ==
    /\ AtCandidate
    /\ ~IsSkipped(QualName(globOrder[idx]))
    /\ tree[globOrder[idx]].load = "BaseException"
    /\ loaded' = loaded \cup {globOrder[idx]}
    /\ status' = "raised"
    /\ UNCHANGED <<botMode, tree, globOrder, idx, out, calls, prev, nameVars, relayVars>>

\* lines 60-63: no setup function, not a plugin
NoSetup ==
    /\ AtCandidate
    /\ ~IsSkipped(QualName(globOrder[idx]))
    /\ tree[globOrder[idx]].load = "ok"
    /\ ~HasSetupFunction(tree[globOrder[idx]])
    /\ loaded' = loaded \cup {globOrder[idx]}
    /\ Advance
    /\ UNCHANGED out

\* lines 65-71: EXT_METADATA is there and has a mask
YieldDeclared ==
    /\ AtCandidate
    /\ ~IsSkipped(QualName(globOrder[idx]))
    /\ tree[globOrder[idx]].load = "ok"
    /\ HasSetupFunction(tree[globOrder[idx]])
    /\ tree[globOrder[idx]].ext_metadata = "declared"
    /\ loaded' = loaded \cup {globOrder[idx]}
    /\ out' = Append(out, Yielded(globOrder[idx],
                                  LoadCog(tree[globOrder[idx]].load_if_mode, botMode)))
    /\ Advance

\* line 68, outside the try: EXT_METADATA has no usable load_if_mode
MetadataRaises ==
    /\ AtCandidate
    /\ ~IsSkipped(QualName(globOrder[idx]))
    /\ tree[globOrder[idx]].load = "ok"
    /\ HasSetupFunction(tree[globOrder[idx]])
    /\ tree[globOrder[idx]].ext_metadata = "malformed"
    /\ loaded' = loaded \cup {globOrder[idx]}
    /\ status' = "raised"
    /\ UNCHANGED <<botMode, tree, globOrder, idx, out, calls, prev, nameVars, relayVars>>

\* lines 73-78: EXT_METADATA is missing
YieldDefault ==
    /\ AtCandidate
    /\ ~IsSkipped(QualName(globOrder[idx]))
    /\ tree[globOrder[idx]].load = "ok"
    /\ HasSetupFunction(tree[globOrder[idx]])
    /\ tree[globOrder[idx]].ext_metadata = "absent"
    /\ loaded' = loaded \cup {globOrder[idx]}
    /\ out' = Append(out, Yielded(globOrder[idx], DefaultLoadCog))
    /\ Advance

\* line 32: glob has no more paths, the generator returns
Exhausted ==
    /\ status = "running"
    /\ idx > Len(globOrder)
    /\ status' = "exhausted"
    /\ UNCHANGED <<botMode, tree, globOrder, idx, out, loaded, calls, prev, nameVars, relayVars>>

\* walk_plugins is called again over the unchanged tree: glob scans anew
CallAgain ==
    /\ status \in {"exhausted", "raised"}
    /\ calls < MaxCalls
    /\ calls' = calls + 1
    /\ prev' = [out |-> out, status |-> status]
    /\ globOrder' \in Orders(DOMAIN tree)
    /\ idx' = 1
    /\ out' = <<>>
    /\ loaded' = {}
    /\ status' = "running"
    /\ UNCHANGED <<botMode, tree, nameVars, relayVars>>

Next ==
    \/ SkipUnderscore
    \/ ImportFails
    \/ ImportEscapes
    \/ NoSetup
    \/ YieldDeclared
    \/ MetadataRaises
    \/ YieldDefault
    \/ Exhausted
    \/ CallAgain

Spec == Init /\ [][Next]_vars

\* The same scan over the trees of at most MaxSolo files: what is decided for
\* one candidate from its own module and BOT_MODE.
InitSolo == InitWalk(MaxSolo) /\ IdleNames /\ IdleRelay

SpecSolo == InitSolo /\ [][Next]_vars

----------------------------------------------------------------------------
(* Identity resolution on its own: lines 34-36 applied to any two paths *)

PathChars == {"a", "p", "_", ".", "/"}

Strings(n) == UNION {[1..k -> PathChars] : k \in 0..n}

\* s followed by ".py" is a relative path glob can yield: directory names
\* are not empty and are neither "." nor ".."
IsRelative(s) ==
    LET segs == Split(s, "/")
    IN  \A i \in 1..(Len(segs) - 1) :
            segs[i] \notin {<<>>, <<".">>, <<".", ".">>}

RelativePaths == {s \o Suffix : s \in {t \in Strings(MaxPathLen) : IsRelative(t)}}

InitName ==
    /\ pathA \in RelativePaths
    /\ pathB \in RelativePaths
    /\ nameA = <<>>
    /\ nameB = <<>>
    /\ resolved = FALSE
    /\ IdleRelay
    /\ botMode = PRODUCTION
    /\ tree = <<>>
    /\ globOrder = <<>>
    /\ idx = 1
    /\ out = <<>>
    /\ loaded = {}
    /\ status = "none"
    /\ calls = 0
    /\ prev = NoCall

Resolve ==
    /\ ~resolved
    /\ nameA' = QualName(pathA)
    /\ nameB' = QualName(pathB)
    /\ resolved' = TRUE
    /\ UNCHANGED <<pathA, pathB, walkVars, relayVars>>

NextName == Resolve

SpecName == InitName /\ [][NextName]_vars

----------------------------------------------------------------------------
(* DM relay: modmail/extensions/threads.py, DmRelay *)

Users == {"u1", "u2"}
BotUser == "bot"

\* what on_message reads of a message
Messages == [author : Users \cup {BotUser}, guild : BOOLEAN, prefixed : BOOLEAN]

Handler(pc, author, target) == [pc |-> pc, author |-> author, target |-> target]

\* a close coroutine: where it is, and the thread (ctx.channel) it was run in
Closing(pc, thread) == [pc |-> pc, thread |-> thread]

\* discord.utils.get(guild.threads, name=name): the position of the first
\* thread with that name, 0 for None
GetThread(name) ==
    IF \E i \in 1..Len(threads) : threads[i].name = name
    THEN CHOOSE i \in 1..Len(threads) :
             threads[i].name = name /\ \A j \in 1..(i - 1) : threads[j].name # name
    ELSE 0

\* lines 73-78, up to the next await: an open thread of the author is reused,
\* otherwise start_discord_thread is entered and suspends at relay_channel.send
AfterLookup(author) ==
    IF GetThread(author) # 0 /\ ~threads[GetThread(author)].archived
    THEN Handler("relaying", author, GetThread(author))
    ELSE Handler("sending", author, 0)

InitRelay ==
    /\ relayChannel = FALSE
    /\ threads = <<>>
    /\ handlers = [h \in 1..MaxMessages |-> Handler("pending", BotUser, 0)]
    /\ closes = [c \in 1..MaxCloses |-> Closing("pending", 0)]
    /\ IdleNames
    /\ botMode = PRODUCTION
    /\ tree = <<>>
    /\ globOrder = <<>>
    /\ idx = 1
    /\ out = <<>>
    /\ loaded = {}
    /\ status = "none"
    /\ calls = 0
    /\ prev = NoCall

\* lines 59-68: the bot's own messages, guild messages and commands are dropped
MessageIgnored(h) ==
    /\ handlers[h].pc = "pending"
    /\ \E msg \in Messages :
        /\ msg.author = BotUser \/ msg.guild \/ msg.prefixed
        /\ handlers' = [handlers EXCEPT ![h] = Handler("done", msg.author, 0)]
    /\ UNCHANGED <<relayChannel, threads, closes, walkVars, nameVars>>

\* lines 59-71: a direct message arrives before the relay channel is known;
\* the handler suspends at fetch_channel
MessageFetches(h) ==
    /\ handlers[h].pc = "pending"
    /\ ~relayChannel
    /\ \E msg \in Messages :
        /\ ~(msg.author = BotUser \/ msg.guild \/ msg.prefixed)
        /\ handlers' = [handlers EXCEPT ![h] = Handler("fetching", msg.author, 0)]
    /\ UNCHANGED <<relayChannel, threads, closes, walkVars, nameVars>>

\* lines 59-78: a direct message arrives, the relay channel is known; the
\* handler looks the thread up and suspends at its next await
MessageLooksUp(h) ==
    /\ handlers[h].pc = "pending"
    /\ relayChannel
    /\ \E msg \in Messages :
        /\ ~(msg.author = BotUser \/ msg.guild \/ msg.prefixed)
        /\ handlers' = [handlers EXCEPT ![h] = AfterLookup(msg.author)]
    /\ UNCHANGED <<relayChannel, threads, closes, walkVars, nameVars>>

\* lines 71-78: fetch_channel returns; the handler looks the thread up
ChannelFetched(h) ==
    /\ handlers[h].pc = "fetching"
    /\ relayChannel' = TRUE
    /\ handlers' = [handlers EXCEPT ![h] = AfterLookup(handlers[h].author)]
    /\ UNCHANGED <<threads, closes, walkVars, nameVars>>

\* lines 46-51: relay_channel.send returns; the handler suspends at create_thread
RelaySent(h) ==
    /\ handlers[h].pc = "sending"
    /\ handlers' = [handlers EXCEPT ![h] = Handler("creating", handlers[h].author, 0)]
    /\ UNCHANGED <<relayChannel, threads, closes, walkVars, nameVars>>

\* lines 51-56 and 80: create_thread returns a thread named after the author;
\* the handler suspends at thread_channel.send
ThreadCreated(h) ==
    /\ handlers[h].pc = "creating"
    /\ threads' = Append(threads, [name |-> handlers[h].author, archived |-> FALSE])
    /\ handlers' = [handlers EXCEPT
                       ![h] = Handler("relaying", handlers[h].author, Len(threads) + 1)]
    /\ UNCHANGED <<relayChannel, closes, walkVars, nameVars>>

\* line 80: thread_channel.send returns, the handler is done
MessageRelayed(h) ==
    /\ handlers[h].pc = "relaying"
    /\ handlers' = [handlers EXCEPT ![h] = Handler("done", handlers[h].author, handlers[h].target)]
    /\ UNCHANGED <<relayChannel, threads, closes, walkVars, nameVars>>

\* lines 82-92: the close command is run in a thread, archived or not; the
\* coroutine builds the embed and suspends at ctx.send
CloseInvoked(c, i) ==
    /\ closes[c].pc = "pending"
    /\ i \in 1..Len(threads)
    /\ closes' = [closes EXCEPT ![c] = Closing("sending", i)]
    /\ UNCHANGED <<relayChannel, threads, handlers, walkVars, nameVars>>

\* lines 92-93: ctx.send returns; the coroutine suspends at ctx.channel.edit
CloseSent(c) ==
    /\ closes[c].pc = "sending"
    /\ closes' = [closes EXCEPT ![c] = Closing("editing", closes[c].thread)]
    /\ UNCHANGED <<relayChannel, threads, handlers, walkVars, nameVars>>

\* line 93: edit(archived=True, locked=False) returns, the thread is archived
CloseEdited(c) ==
    /\ closes[c].pc = "editing"
    /\ threads' = [threads EXCEPT ![closes[c].thread].archived = TRUE]
    /\ closes' = [closes EXCEPT ![c] = Closing("done", closes[c].thread)]
    /\ UNCHANGED <<relayChannel, handlers, walkVars, nameVars>>

NextRelay ==
    \/ \E h \in 1..MaxMessages : MessageIgnored(h)
    \/ \E h \in 1..MaxMessages : MessageFetches(h)
    \/ \E h \in 1..MaxMessages : MessageLooksUp(h)
    \/ \E h \in 1..MaxMessages : ChannelFetched(h)
    \/ \E h \in 1..MaxMessages : RelaySent(h)
    \/ \E h \in 1..MaxMessages : ThreadCreated(h)
    \/ \E h \in 1..MaxMessages : MessageRelayed(h)
    \/ \E c \in 1..MaxCloses, i \in 1..MaxMessages : CloseInvoked(c, i)
    \/ \E c \in 1..MaxCloses : CloseSent(c)
    \/ \E c \in 1..MaxCloses : CloseEdited(c)

SpecRelay == InitRelay /\ [][NextRelay]_vars

----------------------------------------------------------------------------
(* Vocabulary of the properties *)

\* the relative paths this call has yielded a pair for
YieldedPaths == {out[i].path : i \in 1..Len(out)}

\* the qualified names of a sequence of yielded pairs, in order
Names(o) == [i \in 1..Len(o) |-> o[i].name]

\* the basename or an ancestor directory name starts with an underscore
HasPrivateSegment(rel) ==
    LET segs == Split(rel, "/")
    IN  \E i \in 1..Len(segs) : startswith(segs[i], "_")

\* the derived basename is empty: the qualified name ends in the separator
HasEmptyBasename(rel) == LastSegment(QualName(rel), ".") = <<>>

\* the declared mask and the active mask share a flag: (m & a) != 0
ShareFlag(m, a) == \E i \in 1..Len(ModeBits) : HasBit(m, ModeBits[i]) /\ HasBit(a, ModeBits[i])

\* a candidate other candidates' failures must not hide: non-private name,
\* loads cleanly, has a setup function
ValidCandidate(rel) ==
    /\ ~HasPrivateSegment(rel)
    /\ tree[rel].load = "ok"
    /\ HasSetupFunction(tree[rel])

\* the required entry point: a callable named setup taking exactly one argument
HasEntryPoint(m) == m.setup \in {"function1", "callable"}

----------------------------------------------------------------------------
(* Properties *)

\* C1 (isolation): once a call has ended, if the import of some candidate
\* raised, every other valid candidate of the tree has been yielded.
C1_Isolation ==
    \A p \in DOMAIN tree :
        (status \in {"exhausted", "raised"} /\ p \in loaded /\ tree[p].load # "ok")
        => \A q \in DOMAIN tree \ {p} : ValidCandidate(q) => q \in YieldedPaths

\* C2 (no escape): no exception raised while a candidate is processed leaves
\* walk_plugins.
C2_NoEscape == status # "raised"

\* C3 (identity purity): two distinct relative paths get two distinct
\* qualified names.
C3_Injective == (resolved /\ pathA # pathB) => nameA # nameB

\* C4 (privacy skip): a file whose basename or one of whose ancestor
\* directories starts with an underscore is never yielded.
C4_PrivacySkip ==
    \A p \in DOMAIN tree : HasPrivateSegment(p) => p \notin YieldedPaths

\* C5 (default metadata): a plugin without EXT_METADATA is reported eligible
\* exactly when BOT_MODE includes PRODUCTION.
C5_DefaultMetadata ==
    \A i \in 1..Len(out) :
        tree[out[i].path].ext_metadata = "absent"
        => (Truthy(out[i].load_cog) <=> HasBit(botMode, PRODUCTION))

\* C6 (mode arithmetic): for a plugin with declared EXT_METADATA the yielded
\* eligibility value is truthy iff (load_if_mode & BOT_MODE) != 0.
C6_ModeArithmetic ==
    \A i \in 1..Len(out) :
        tree[out[i].path].ext_metadata = "declared"
        => (Truthy(out[i].load_cog)
            <=> ShareFlag(tree[out[i].path].load_if_mode, botMode))

\* C6, its case: a declared plugin whose mask has flags, none of them active,
\* has been yielded as not eligible.
C6_Witness ==
    \E i \in 1..Len(out) :
        /\ tree[out[i].path].ext_metadata = "declared"
        /\ tree[out[i].path].load_if_mode = PRODUCTION + PLUGIN_DEVELOPMENT
        /\ botMode = DEVELOPMENT
        /\ ~Truthy(out[i].load_cog)

\* C7 (eligible mode names): the names reported for a declared
\* plugin are the names of all flags of its load_if_mode, whatever BOT_MODE is.
C7_DeclaredNames ==
    \A i \in 1..Len(out) :
        tree[out[i].path].ext_metadata = "declared"
        => {out[i].load_cog.items[k] : k \in 1..Len(out[i].load_cog.items)}
           = {ModeNames[k] : k \in {n \in 1..Len(ModeBits) :
                  HasBit(tree[out[i].path].load_if_mode, ModeBits[n])}}

\* C8 (contract gating): after a call that exhausted the tree, a file that
\* loaded without error and was not skipped by the underscore rule has been
\* yielded iff it has the entry point, a callable setup of one argument.
C8_ContractGating ==
    status = "exhausted"
    => \A p \in DOMAIN tree :
           (tree[p].load = "ok" /\ ~IsSkipped(QualName(p)))
           => (p \in YieldedPaths <=> HasEntryPoint(tree[p]))

\* C9 (determinism): two successive complete calls over the unchanged tree
\* yield the same sequence of qualified names.
C9_Determinism ==
    (calls >= 2 /\ status = "exhausted" /\ prev.status = "exhausted")
    => Names(out) = Names(prev.out)

\* C10 (invalid identity): a path whose derived basename is empty is no
\* candidate: it is neither loaded nor yielded.
C10_InvalidIdentity ==
    \A p \in DOMAIN tree :
        HasEmptyBasename(p) => p \notin loaded /\ p \notin YieldedPaths

\* the un-archived threads named after a user
OpenThreads(u) == {i \in 1..Len(threads) : threads[i].name = u /\ ~threads[i].archived}

\* C11 (DM relay): whatever the interleaving of the on_message handlers, a
\* user has at most one un-archived thread named after their author id.
C11_OneOpenThread == \A u \in Users : Cardinality(OpenThreads(u)) <= 1

====
